---- MODULE Spec2Model ----
(***************************************************************************)
(* A model of the two batch scripts of NER_Benchmarking_Dataset:           *)
(*   convert_conll_dataset.py  (CoNLL parser, person-name extractor,       *)
(*                              log/srt/docx writer, ground-truth JSON)    *)
(*   clean_json.py             (name normalizer, validity filter, cleaner) *)
(*                                                                         *)
(* Text is modelled as Python models it: a str is a sequence of code       *)
(* points (naturals), a file is a sequence of lines of bytes.  Character   *)
(* classes are those of CPython for code points below 256.                 *)
(***************************************************************************)
EXTENDS Integers, Sequences, FiniteSets, TLC

VARIABLES
    \* ---- convert_conll_dataset.main and the parse_conll_file generator
    pc,               \* position of main: loop | prepared | reading | done,
                      \* or the exception that ended it
    nfiles,           \* len(files_to_process)
    file_idx,         \* number of files whose for-loop body has completed
    file,             \* the bytes of the file being processed, line by line
    enc,              \* index into encodings_to_try of the running attempt
    pos,              \* lines consumed by the running attempt
    sentence,         \* the generator's local list `sentence`
    yielded,          \* history: sentences the consumer received for this file
    all_person_names, \* the process-wide set of names
    log_f,            \* lines written to the .log file of this file
    srt_f,            \* blocks written to the .srt file of this file
    srt_counter,      \* main's srt_counter
    doc,              \* paragraphs added to the document of this file
    json_out,         \* content of ground_truth_persons.json
    json_writes,      \* number of times the ground-truth JSON was written
    \* ---- one call of extract_person_names
    x_pc, x_sentence, x_names,
    \* ---- one call of format_time
    t_pc, t_seconds, t_out,
    \* ---- clean_person_name followed by is_valid_person_name on one name
    n_pc, n_raw, n_cleaned, n_valid,
    \* ---- clean_json.main
    c_pc, original_names, c_i, cleaned_names, unique_names

convVars == <<pc, nfiles, file_idx, file, enc, pos, sentence, yielded,
              all_person_names, log_f, srt_f, srt_counter, doc, json_out,
              json_writes>>
extractVars == <<x_pc, x_sentence, x_names>>
timeVars == <<t_pc, t_seconds, t_out>>
nameVars == <<n_pc, n_raw, n_cleaned, n_valid>>
cleanerVars == <<c_pc, original_names, c_i, cleaned_names, unique_names>>
vars == <<convVars, extractVars, timeVars, nameVars, cleanerVars>>

----------------------------------------------------------------------------
(* Bounds of the model.                                                    *)

MaxLines == 3
MaxFiles == 2
MaxSentLen == 4
MaxSeconds == 90000
MaxNameLen == 4
MaxNames == 2

----------------------------------------------------------------------------
(* Python text primitives.                                                 *)

\* str.isspace() / regex \s, for code points below 256.
Whitespace == (9..13) \cup (28..32) \cup {133, 160}

IsSpace(c) == c \in Whitespace

\* regex \d
IsDigit(c) == c \in 48..57

\* regex \w
IsWord(c) ==
    c \in (48..57) \cup (65..90) \cup {95} \cup (97..122)
          \cup {170, 178, 179, 181, 185, 186} \cup (188..190)
          \cup (192..214) \cup (216..246) \cup (248..255)

\* the characters of the class ["'\s]
QuotesAndWhitespace == {34, 39} \cup Whitespace

IsQuoteOrSpace(c) == c \in QuotesAndWhitespace

\* str.lower() on one code point below 256
LowerChar(c) ==
    IF c \in (65..90) \cup (192..214) \cup (216..222) THEN c + 32 ELSE c

Lower(s) == [i \in 1..Len(s) |-> LowerChar(s[i])]

StartsWith(s, p) == Len(s) >= Len(p) /\ SubSeq(s, 1, Len(p)) = p

EndsWith(s, p) ==
    Len(s) >= Len(p) /\ SubSeq(s, Len(s) - Len(p) + 1, Len(s)) = p

SetMin(S) == CHOOSE m \in S : \A k \in S : m <= k

SetMax(S) == CHOOSE m \in S : \A k \in S : m >= k

\* s without its leading run of characters of the set drop
LStrip(s, drop) ==
    LET keep == {i \in 1..Len(s) : s[i] \notin drop}
    IN  IF keep = {} THEN <<>> ELSE SubSeq(s, SetMin(keep), Len(s))

\* s without its trailing run of characters of the set drop
RStrip(s, drop) ==
    LET keep == {i \in 1..Len(s) : s[i] \notin drop}
    IN  IF keep = {} THEN <<>> ELSE SubSeq(s, 1, SetMax(keep))

\* str.strip()
Strip(s) == RStrip(LStrip(s, Whitespace), Whitespace)

\* the first whitespace-free word of s, s not starting with whitespace
RECURSIVE FirstWord(_)
FirstWord(s) ==
    IF s = <<>> \/ IsSpace(Head(s)) THEN <<>>
    ELSE <<Head(s)>> \o FirstWord(Tail(s))

\* str.split(): the maximal whitespace-free words of s, in order
RECURSIVE Split(_)
Split(s) ==
    LET t == LStrip(s, Whitespace)
    IN  IF t = <<>> THEN <<>>
        ELSE LET w == FirstWord(t)
             IN  <<w>> \o Split(SubSeq(t, Len(w) + 1, Len(t)))

\* " ".join(words)
RECURSIVE Join(_)
Join(words) ==
    IF words = <<>> THEN <<>>
    ELSE IF Len(words) = 1 THEN words[1]
    ELSE words[1] \o <<32>> \o Join(Tail(words))

\* Python's < on str: code point by code point, a proper prefix first
RECURSIVE StrLess(_, _)
StrLess(a, b) ==
    IF b = <<>> THEN FALSE
    ELSE IF a = <<>> THEN TRUE
    ELSE IF Head(a) # Head(b) THEN Head(a) < Head(b)
    ELSE StrLess(Tail(a), Tail(b))

\* sorted(list(S)) for a set S of str
RECURSIVE Sorted(_)
Sorted(S) ==
    IF S = {} THEN <<>>
    ELSE LET m == CHOOSE a \in S : \A b \in S \ {a} : StrLess(a, b)
         IN  <<m>> \o Sorted(S \ {m})

Range(f) == {f[i] : i \in DOMAIN f}

\* all sequences over S of length at most n
SeqsUpTo(S, n) == UNION {[1..k -> S] : k \in 0..n}

----------------------------------------------------------------------------
(* Text codecs: what open(..., encoding=e) makes of a line of bytes.       *)

\* encodings_to_try = ['utf-8', 'latin-1', 'iso-8859-1']
encodings_to_try == <<"utf-8", "latin-1", "iso-8859-1">>

IsCont(b) == b \in 128..191

\* The length of the well-formed UTF-8 sequence at the head of bs, 0 if the
\* head is ill-formed (UnicodeDecodeError).
Utf8Len(bs) ==
    LET b1 == bs[1]
        has(n) == Len(bs) >= n /\ \A i \in 2..n : IsCont(bs[i])
    IN  IF b1 < 128 THEN 1
        ELSE IF b1 \in 194..223 /\ has(2) THEN 2
        ELSE IF b1 \in 224..239 /\ has(3)
                /\ (b1 = 224 => bs[2] >= 160) /\ (b1 = 237 => bs[2] <= 159)
             THEN 3
        ELSE IF b1 \in 240..244 /\ has(4)
                /\ (b1 = 240 => bs[2] >= 144) /\ (b1 = 244 => bs[2] <= 143)
             THEN 4
        ELSE 0

Utf8Point(bs, n) ==
    IF n = 1 THEN bs[1]
    ELSE IF n = 2 THEN (bs[1] - 192) * 64 + (bs[2] - 128)
    ELSE IF n = 3 THEN (bs[1] - 224) * 4096 + (bs[2] - 128) * 64 + (bs[3] - 128)
    ELSE (bs[1] - 240) * 262144 + (bs[2] - 128) * 4096
         + (bs[3] - 128) * 64 + (bs[4] - 128)

RECURSIVE Utf8Valid(_)
Utf8Valid(bs) ==
    IF bs = <<>> THEN TRUE
    ELSE Utf8Len(bs) > 0 /\ Utf8Valid(SubSeq(bs, Utf8Len(bs) + 1, Len(bs)))

RECURSIVE Utf8Decode(_)
Utf8Decode(bs) ==
    IF bs = <<>> THEN <<>>
    ELSE LET n == Utf8Len(bs)
         IN  <<Utf8Point(bs, n)>> \o Utf8Decode(SubSeq(bs, n + 1, Len(bs)))

\* Whether the codec decodes the bytes; latin-1 (alias iso-8859-1) maps every
\* byte to the code point of the same number and never fails.
Decodable(e, bs) == (e = "utf-8") => Utf8Valid(bs)

Decode(e, bs) == IF e = "utf-8" THEN Utf8Decode(bs) ELSE bs

----------------------------------------------------------------------------
(* convert_conll_dataset.py: the pure functions.                           *)

B_PER == <<66, 45, 80, 69, 82>>                      \* 'B-PER'
I_PER == <<73, 45, 80, 69, 82>>                      \* 'I-PER'
DOCSTART == <<45, 68, 79, 67, 83, 84, 65, 82, 84, 45>>   \* '-DOCSTART-'

\* The loop of extract_person_names over the rest of the sentence, with the
\* locals current_name (a list of tokens) and names (a set of str).
RECURSIVE ExtractLoop(_, _, _)
ExtractLoop(rest, current_name, names) ==
    IF rest = <<>>
    THEN IF current_name # <<>> THEN names \cup {Join(current_name)} ELSE names
    ELSE LET token == rest[1][1]
             tag == rest[1][2]
         IN  IF tag = B_PER
             THEN ExtractLoop(Tail(rest), <<token>>,
                              IF current_name # <<>>
                              THEN names \cup {Join(current_name)} ELSE names)
             ELSE IF tag = I_PER
             THEN ExtractLoop(Tail(rest),
                              IF current_name # <<>>
                              THEN Append(current_name, token) ELSE current_name,
                              names)
             ELSE ExtractLoop(Tail(rest), <<>>,
                              IF current_name # <<>>
                              THEN names \cup {Join(current_name)} ELSE names)

\* extract_person_names with an I-PER token opening a run when none is open
RECURSIVE ExtractLoopInsideOpens(_, _, _)
ExtractLoopInsideOpens(rest, current_name, names) ==
    IF rest = <<>>
    THEN IF current_name # <<>> THEN names \cup {Join(current_name)} ELSE names
    ELSE LET token == rest[1][1]
             tag == rest[1][2]
         IN  IF tag = B_PER
             THEN ExtractLoopInsideOpens(Tail(rest), <<token>>,
                              IF current_name # <<>>
                              THEN names \cup {Join(current_name)} ELSE names)
             ELSE IF tag = I_PER
             THEN ExtractLoopInsideOpens(Tail(rest),
                                         Append(current_name, token), names)
             ELSE ExtractLoopInsideOpens(Tail(rest), <<>>,
                              IF current_name # <<>>
                              THEN names \cup {Join(current_name)} ELSE names)

extract_person_names_InsideOpens(s) == ExtractLoopInsideOpens(s, <<>>, {})

extract_person_names(s) == ExtractLoop(s, <<>>, {})

\* two decimal digits, as strftime's %H, %M and %S print them
TwoDigits(n) == <<48 + (n \div 10), 48 + (n % 10)>>

\* (datetime(1, 1, 1) + timedelta(seconds=seconds)).strftime('%H:%M:%S,000'):
\* the time of day of the moment `seconds` after midnight of the first day.
format_time(seconds) ==
    LET second_of_day == seconds % 86400
        hour == second_of_day \div 3600
        minute == (second_of_day % 3600) \div 60
        second == second_of_day % 60
    IN  TwoDigits(hour) \o <<58>> \o TwoDigits(minute) \o <<58>>
        \o TwoDigits(second) \o <<44, 48, 48, 48>>

\* str(n) for a natural number, as an f-string prints srt_counter
RECURSIVE Decimal(_)
Decimal(n) ==
    IF n < 10 THEN <<48 + n>> ELSE Decimal(n \div 10) \o <<48 + (n % 10)>>

\* the boundary test without the -DOCSTART- marker
IsBoundaryLine_BlankOnly(line) == line = <<>>

\* line.startswith('-DOCSTART-') or line == '', on the stripped line
IsBoundaryLine(line) == StartsWith(line, DOCSTART) \/ line = <<>>

\* the columns indexed as token, pos, chunk, ner: parts[0] and parts[3]
ColumnsIndexable_FourColumns(parts) == Len(parts) >= 4

\* parts[0] and parts[-1] raise IndexError exactly on an empty list
ColumnsIndexable(parts) == Len(parts) >= 1

\* (token, tag) = (parts[0], parts[-1])
TokenTag(parts) == <<parts[1], parts[Len(parts)]>>

\* sentence_text = " ".join([token for token, tag in sentence])
SentenceText(s) == Join([i \in 1..Len(s) |-> s[i][1]])

\* the three writes of one subtitle block: number, timing line, text
SrtBlock(counter, text) ==
    <<Decimal(counter),
      format_time(counter - 1) \o <<32, 45, 45, 62, 32>> \o format_time(counter),
      text>>

----------------------------------------------------------------------------
(* The input files of the model: every sequence of at most MaxLines lines  *)
(* drawn from Lines, given as bytes.                                       *)

Lines ==
    { <<>>,                                                 \* blank line
      <<45, 68, 79, 67, 83, 84, 65, 82, 84, 45, 32,
        45, 88, 45, 32, 79, 32, 79>>,                       \* -DOCSTART- -X- O O
      <<74, 117, 97, 110, 32, 78, 67, 32, 66, 45, 80, 69, 82>>, \* Juan NC B-PER
      <<80, 101, 114, 101, 122, 32, 73, 45, 80, 69, 82>>,   \* Perez I-PER
      <<115, 111, 108, 111>>,                               \* solo
      <<74, 111, 115, 233, 32, 79>> }                       \* Jos\xe9 O

Files == SeqsUpTo(Lines, MaxLines)

----------------------------------------------------------------------------
(* convert_conll_dataset.py: main and the generator it drives.             *)

Encoding == encodings_to_try[enc]

\* the line the running attempt reads next, as the loop body sees it
NextLine == Strip(Decode(Encoding, file[pos + 1]))

\* Text is decoded a buffer at a time, ahead of the line being returned: a
\* line that does not decode raises when its buffer is read, which is when
\* some line at or before it is asked for.
DecodeErrorAhead ==
    \E j \in (pos + 1)..Len(file) : ~Decodable(Encoding, file[j])

IdleConv ==
    /\ pc = "idle" /\ nfiles = 0 /\ file_idx = 0 /\ file = <<>>
    /\ enc = 1 /\ pos = 0 /\ sentence = <<>> /\ yielded = <<>>
    /\ all_person_names = {} /\ log_f = <<>> /\ srt_f = <<>>
    /\ srt_counter = 1 /\ doc = <<>> /\ json_out = <<>> /\ json_writes = 0

\* main up to the for loop over files_to_process
InitConv ==
    /\ pc = "loop"
    /\ nfiles \in 0..MaxFiles
    /\ file_idx = 0
    /\ file = <<>>
    /\ enc = 1
    /\ pos = 0
    /\ sentence = <<>>
    /\ yielded = <<>>
    /\ all_person_names = {}
    /\ log_f = <<>>
    /\ srt_f = <<>>
    /\ srt_counter = 1
    /\ doc = <<>>
    /\ json_out = <<>>
    /\ json_writes = 0

\* The body of `for sentence in parse_conll_file(file_path)` for the yielded
\* sentence s.
Deliver(s) ==
    /\ yielded' = Append(yielded, s)
    /\ all_person_names' = all_person_names \cup extract_person_names(s)
    /\ log_f' = Append(log_f, SentenceText(s))
    /\ srt_f' = Append(srt_f, SrtBlock(srt_counter, SentenceText(s)))
    /\ srt_counter' = srt_counter + 1
    /\ doc' = Append(doc, SentenceText(s))

NoDeliver ==
    UNCHANGED <<yielded, all_person_names, log_f, srt_f, srt_counter, doc>>

\* the next file taken with the name set created anew for it
NextFile_FreshNames ==
    /\ pc = "loop"
    /\ file_idx < nfiles
    /\ file' = <<>>
    /\ enc' = 1
    /\ pos' = 0
    /\ sentence' = <<>>
    /\ yielded' = <<>>
    /\ log_f' = <<>>
    /\ srt_f' = <<>>
    /\ srt_counter' = 1
    /\ doc' = <<>>
    /\ all_person_names' = {}
    /\ pc' = "prepared"
    /\ UNCHANGED <<nfiles, file_idx, json_out, json_writes>>

\* `for file_path in files_to_process` takes the next file: a new document,
\* the .log and .srt files opened for writing, srt_counter = 1.
NextFile ==
    /\ pc = "loop"
    /\ file_idx < nfiles
    /\ file' = <<>>
    /\ enc' = 1
    /\ pos' = 0
    /\ sentence' = <<>>
    /\ yielded' = <<>>
    /\ log_f' = <<>>
    /\ srt_f' = <<>>
    /\ srt_counter' = 1
    /\ doc' = <<>>
    /\ pc' = "prepared"
    /\ UNCHANGED <<nfiles, file_idx, all_person_names, json_out, json_writes>>

\* The generator starts: the input file, whatever it holds, is opened under
\* the first encoding with an empty sentence.
OpenFile ==
    /\ pc = "prepared"
    /\ \E f \in Files : file' = f
    /\ pc' = "reading"
    /\ UNCHANGED <<nfiles, file_idx, enc, pos, sentence, yielded,
                   all_person_names, log_f, srt_f, srt_counter, doc,
                   json_out, json_writes>>

\* `for line in f` returns a boundary line: a non-empty sentence is yielded
\* and consumed, and the sentence restarts.
ReadBoundary ==
    /\ pc = "reading"
    /\ pos < Len(file)
    /\ Decodable(Encoding, file[pos + 1])
    /\ IsBoundaryLine(NextLine)
    /\ pos' = pos + 1
    /\ IF sentence # <<>>
       THEN Deliver(sentence) /\ sentence' = <<>>
       ELSE NoDeliver /\ UNCHANGED sentence
    /\ UNCHANGED <<pc, nfiles, file_idx, file, enc, json_out, json_writes>>

\* `for line in f` returns a line of columns: its first and last column are
\* appended to the sentence.
ReadToken ==
    /\ pc = "reading"
    /\ pos < Len(file)
    /\ Decodable(Encoding, file[pos + 1])
    /\ ~IsBoundaryLine(NextLine)
    /\ LET parts == Split(NextLine)
       IN  IF ColumnsIndexable(parts)
           THEN /\ sentence' = Append(sentence, TokenTag(parts))
                /\ pos' = pos + 1
                /\ pc' = pc
           ELSE /\ pc' = "IndexError"
                /\ UNCHANGED <<sentence, pos>>
    /\ NoDeliver
    /\ UNCHANGED <<nfiles, file_idx, file, enc, json_out, json_writes>>

\* the handler going on under the next encoding from where reading failed
DecodeError_Resume ==
    /\ pc = "reading"
    /\ DecodeErrorAhead
    /\ IF Encoding = encodings_to_try[Len(encodings_to_try)]
       THEN /\ pc' = "UnicodeDecodeError"
            /\ UNCHANGED <<enc, pos, sentence>>
       ELSE /\ enc' = enc + 1
            /\ pc' = pc
            /\ UNCHANGED <<pos, sentence>>
    /\ NoDeliver
    /\ UNCHANGED <<nfiles, file_idx, file, json_out, json_writes>>

\* `except UnicodeDecodeError`: re-raised under the last encoding, otherwise
\* the for loop over the encodings reopens the file under the next one.
DecodeError ==
    /\ pc = "reading"
    /\ DecodeErrorAhead
    /\ IF Encoding = encodings_to_try[Len(encodings_to_try)]
       THEN /\ pc' = "UnicodeDecodeError"
            /\ UNCHANGED <<enc, pos, sentence>>
       ELSE /\ enc' = enc + 1
            /\ pos' = 0
            /\ sentence' = <<>>
            /\ pc' = pc
    /\ NoDeliver
    /\ UNCHANGED <<nfiles, file_idx, file, json_out, json_writes>>

\* The file is read to its end: a sentence still open is yielded and
\* consumed, the generator breaks out of the encodings, and main saves the
\* document and moves on to the next file.
EndOfFile ==
    /\ pc = "reading"
    /\ pos = Len(file)
    /\ IF sentence # <<>>
       THEN Deliver(sentence) /\ sentence' = <<>>
       ELSE NoDeliver /\ UNCHANGED sentence
    /\ file_idx' = file_idx + 1
    /\ pc' = "loop"
    /\ UNCHANGED <<nfiles, file, enc, pos, json_out, json_writes>>

\* After the loop over the files: sorted(list(all_person_names)) is dumped.
SaveJson ==
    /\ pc = "loop"
    /\ file_idx = nfiles
    /\ json_out' = Sorted(all_person_names)
    /\ json_writes' = json_writes + 1
    /\ pc' = "done"
    /\ UNCHANGED <<nfiles, file_idx, file, enc, pos, sentence, yielded,
                   all_person_names, log_f, srt_f, srt_counter, doc>>

----------------------------------------------------------------------------
(* One call of extract_person_names on a sentence of the model.            *)

Tokens == { <<74, 117, 97, 110>>, <<65, 110, 97>> }      \* Juan, Ana
Tags == { B_PER, I_PER, <<79>>, <<66, 45, 76, 79, 67>> } \* B-PER I-PER O B-LOC

\* the sentences of the examples of the specification
ExampleSentences ==
    { << <<<<120>>, <<79>>>>, <<<<74, 117, 97, 110>>, B_PER>>,
         <<<<80, 101, 114, 101, 122>>, I_PER>>, <<<<121>>, <<79>>>>,
         <<<<65, 110, 97>>, B_PER>>, <<<<122>>, <<79>>>> >>,
      << <<<<77, 97, 114, 105, 97>>, B_PER>>,
         <<<<76, 111, 112, 101, 122>>, I_PER>> >> }

Sentences == SeqsUpTo(Tokens \X Tags, MaxSentLen) \cup ExampleSentences

IdleExtract == x_pc = "idle" /\ x_sentence = <<>> /\ x_names = {}

InitExtract == x_pc = "call" /\ x_sentence \in Sentences /\ x_names = {}

Extract ==
    /\ x_pc = "call"
    /\ x_names' = extract_person_names(x_sentence)
    /\ x_pc' = "returned"
    /\ UNCHANGED x_sentence

----------------------------------------------------------------------------
(* One call of format_time.                                                *)

IdleTime == t_pc = "idle" /\ t_seconds = 0 /\ t_out = <<>>

InitTime == t_pc = "call" /\ t_seconds \in 0..MaxSeconds /\ t_out = <<>>

FormatTime ==
    /\ t_pc = "call"
    /\ t_out' = format_time(t_seconds)
    /\ t_pc' = "returned"
    /\ UNCHANGED t_seconds

----------------------------------------------------------------------------
(* clean_json.py: clean_person_name.                                       *)

\* the first substitution without the `+`: one character off each end
StripQuotesSpaces_Once(name) ==
    LET a == IF name # <<>> /\ IsQuoteOrSpace(Head(name)) THEN Tail(name)
             ELSE name
    IN  IF a # <<>> /\ IsQuoteOrSpace(a[Len(a)])
        THEN SubSeq(a, 1, Len(a) - 1) ELSE a

\* re.sub(r'^["\'\s]+|["\'\s]+$', '', name): the leading run and the trailing
\* run of quotes, apostrophes and whitespace are removed.
StripQuotesSpaces(name) ==
    RStrip(LStrip(name, QuotesAndWhitespace), QuotesAndWhitespace)

\* re.sub(r'^q([^q]*)q$', r'\1', name) for the quote character q; `$` also
\* matches before a newline that ends the string.
UnwrapQuotes(name, q) ==
    LET n == Len(name)
        noQuote(a, b) == \A i \in a..b : name[i] # q
    IN  IF n >= 2 /\ name[1] = q /\ name[n] = q /\ noQuote(2, n - 1)
        THEN SubSeq(name, 2, n - 1)
        ELSE IF n >= 3 /\ name[1] = q /\ name[n] = 10 /\ name[n - 1] = q
                /\ noQuote(2, n - 2)
        THEN SubSeq(name, 2, n - 2) \o <<10>>
        ELSE name

\* the whitespace substitution without the `+`: each whitespace character
\* becomes a space of its own
CollapseSpaces_Each(name) ==
    [i \in 1..Len(name) |-> IF IsSpace(name[i]) THEN 32 ELSE name[i]]

\* re.sub(r'\s+', ' ', name): every run of whitespace becomes one space
RECURSIVE CollapseSpaces(_)
CollapseSpaces(name) ==
    IF name = <<>> THEN <<>>
    ELSE IF IsSpace(Head(name))
    THEN <<32>> \o CollapseSpaces(LStrip(name, Whitespace))
    ELSE <<Head(name)>> \o CollapseSpaces(Tail(name))

clean_person_name(name) ==
    Strip(CollapseSpaces(UnwrapQuotes(UnwrapQuotes(StripQuotesSpaces(name),
                                                   34), 39)))

----------------------------------------------------------------------------
(* clean_json.py: is_valid_person_name.  Each pattern is searched in        *)
(* name.lower() with re.search; `^` anchors at the start of the string and  *)
(* `$` at its end or before a newline that ends it.                         *)

\* ^word\s+
PrefixThenSpace(s, word) ==
    StartsWith(s, word) /\ Len(s) > Len(word) /\ IsSpace(s[Len(word) + 1])

\* the words w of the patterns of the form ^w\s+ (optional letters expanded)
TitleWords ==
    { <<102, 97, 109, 105, 108, 105, 97>>,                  \* familia
      <<100, 117, 113, 117, 101>>,                          \* duque
      <<100, 117, 113, 117, 101, 115>>,                     \* duques
      <<109, 97, 114, 113, 117, 101, 115>>,                 \* marques
      <<109, 97, 114, 113, 117, 233, 115>>,                 \* marqu\xe9s
      <<108, 111, 114, 100>>,                               \* lord
      <<114, 101, 121>>,                                    \* rey
      <<114, 101, 105, 110, 97>>,                           \* reina
      <<105, 110, 102, 97, 110, 116>>,                      \* infant
      <<105, 110, 102, 97, 110, 116, 97>>,                  \* infanta
      <<97, 114, 99, 104, 105, 100, 117, 113, 117, 101>>,   \* archiduque
      <<102, 114, 97, 121>>,                                \* fray
      <<104, 101, 114, 109, 97, 110, 111>>,                 \* hermano
      <<104, 101, 114, 109, 97, 110, 111, 115>>,            \* hermanos
      <<100, 111, 99, 116, 111, 114>>,                      \* doctor
      <<112, 114, 111, 102, 101, 115, 111, 114>>,           \* profesor
      <<103, 101, 110, 101, 114, 97, 108>>,                 \* general
      <<99, 97, 112, 105, 116, 225, 110>>,                  \* capit\xe1n
      <<99, 111, 109, 97, 110, 100, 97, 110, 116, 101>>,    \* comandante
      <<116, 101, 110, 105, 101, 110, 116, 101>>,           \* teniente
      <<112, 114, 101, 115, 105, 100, 101, 110, 116, 101>>, \* presidente
      <<109, 105, 110, 105, 115, 116, 114, 111>>,           \* ministro
      <<97, 108, 99, 97, 108, 100, 101>>,                   \* alcalde
      <<99, 111, 110, 115, 101, 106, 101, 114, 111>>,       \* consejero
      <<115, 101, 99, 114, 101, 116, 97, 114, 105, 111>>,   \* secretario
      <<100, 105, 114, 101, 99, 116, 111, 114>>,            \* director
      <<100, 101, 108, 101, 103, 97, 100, 111>> }           \* delegado

MatchesTitleWord(s) == \E w \in TitleWords : PrefixThenSpace(s, w)

\* abogado\s+general, anywhere in the string
MatchesAbogadoGeneral(s) ==
    \E i \in 1..Len(s) :
        LET rest == SubSeq(s, i, Len(s))
            after == SubSeq(rest, 8, Len(rest))
        IN  /\ StartsWith(rest, <<97, 98, 111, 103, 97, 100, 111>>)
            /\ after # <<>>
            /\ IsSpace(after[1])
            /\ StartsWith(LStrip(after, Whitespace),
                          <<103, 101, 110, 101, 114, 97, 108>>)

\* ^dr\.\s*  (the second alternative of the doctor pattern)
MatchesDrDot(s) == StartsWith(s, <<100, 114, 46>>)

\* \.com$ and ^www\.
MatchesWebsite(s) ==
    \/ EndsWith(s, <<46, 99, 111, 109>>)
    \/ EndsWith(s, <<46, 99, 111, 109, 10>>)
    \/ StartsWith(s, <<119, 119, 119, 46>>)

\* what a pattern ^...$ may have to match in full: the string, or the string
\* without the newline that ends it
DollarBodies(s) ==
    {s} \cup (IF s # <<>> /\ s[Len(s)] = 10
              THEN {SubSeq(s, 1, Len(s) - 1)} ELSE {})

\* ^\d+$
MatchesNumber(s) ==
    \E b \in DollarBodies(s) : b # <<>> /\ \A i \in 1..Len(b) : IsDigit(b[i])

\* ^[A-Z]+$
MatchesAllCaps(s) ==
    \E b \in DollarBodies(s) : b # <<>> /\ \A i \in 1..Len(b) : b[i] \in 65..90

\* n groups \w\. separated by \s*, matching b in full
RECURSIVE InitialGroups(_, _)
InitialGroups(b, n) ==
    /\ Len(b) >= 2
    /\ IsWord(b[1])
    /\ b[2] = 46
    /\ IF n = 1 THEN Len(b) = 2
       ELSE InitialGroups(LStrip(SubSeq(b, 3, Len(b)), Whitespace), n - 1)

\* ^\w\.\s*\w\.$ and ^\w\.\s*\w\.\s*\w\.$
MatchesInitials(s) ==
    \E b \in DollarBodies(s) : InitialGroups(b, 2) \/ InitialGroups(b, 3)

\* for pattern in exclude_patterns: re.search(pattern, name_lower)
MatchesExcludePattern(name_lower) ==
    \/ MatchesTitleWord(name_lower)
    \/ MatchesAbogadoGeneral(name_lower)
    \/ MatchesDrDot(name_lower)
    \/ MatchesWebsite(name_lower)
    \/ MatchesNumber(name_lower)
    \/ MatchesAllCaps(name_lower)
    \/ MatchesInitials(name_lower)

\* ['efe', 'efecom', 'psoe', 'pp', 'ugt', 'ccoo']
OrganizationNames ==
    { <<101, 102, 101>>, <<101, 102, 101, 99, 111, 109>>,
      <<112, 115, 111, 101>>, <<112, 112>>, <<117, 103, 116>>,
      <<99, 99, 111, 111>> }

is_valid_person_name(name) ==
    IF name = <<>> \/ Len(Strip(name)) < 2 THEN FALSE
    ELSE IF MatchesExcludePattern(Lower(name)) THEN FALSE
    ELSE IF Lower(name) \in OrganizationNames THEN FALSE
    ELSE TRUE

----------------------------------------------------------------------------
(* One name through clean_person_name and then is_valid_person_name, as    *)
(* the loop of clean_json.main calls them.                                 *)

\* " ' space tab A b . 1
NameAlphabet == {34, 39, 32, 9, 65, 98, 46, 49}

ExampleNames ==
    { <<32, 32, 34, 74, 111, 104, 110, 32, 83, 109, 105, 116, 104, 34, 32, 32>>,
                                                 \* '  "John Smith"  '
      <<68, 114, 46, 32, 77, 97, 114, 105, 97, 32, 76, 111, 112, 101, 122>>,
                                                 \* 'Dr. Maria Lopez'
      <<68, 82, 46, 32, 77, 97, 114, 105, 97, 32, 76, 111, 112, 101, 122>>,
                                                 \* 'DR. Maria Lopez'
      <<100, 114, 46, 32, 109, 97, 114, 105, 97, 32, 108, 111, 112, 101, 122>>,
                                                 \* 'dr. maria lopez'
      <<100, 82, 46, 88>>,                       \* 'dR.X'
      <<119, 119, 119, 46, 101, 102, 101, 46, 101, 115>>,   \* 'www.efe.es'
      <<69, 102, 101, 46, 67, 79, 77>>,          \* 'Efe.COM'
      <<78, 65, 84, 79>>,                        \* 'NATO'
      <<69, 70, 69, 67, 79, 77>>,                \* 'EFECOM'
      <<74, 46, 82, 46, 82, 46>>,                \* 'J.R.R.'
      <<49, 57, 56, 52>>,                        \* '1984'
      <<71, 101, 110, 101, 114, 97, 108, 32, 32, 70, 114, 97, 110, 99, 111>>,
                                                 \* 'General  Franco'
      <<65, 98, 111, 103, 97, 100, 111, 32, 71, 101, 110, 101, 114, 97, 108>>,
                                                 \* 'Abogado General'
      <<79, 39, 66, 114, 105, 101, 110>> }       \* "O'Brien"

RawNames == SeqsUpTo(NameAlphabet, MaxNameLen) \cup ExampleNames

IdleName == n_pc = "idle" /\ n_raw = <<>> /\ n_cleaned = <<>> /\ n_valid = FALSE

InitName ==
    n_pc = "raw" /\ n_raw \in RawNames /\ n_cleaned = <<>> /\ n_valid = FALSE

\* cleaned = clean_person_name(name)
CleanName ==
    /\ n_pc = "raw"
    /\ n_cleaned' = clean_person_name(n_raw)
    /\ n_pc' = "cleaned"
    /\ UNCHANGED <<n_raw, n_valid>>

\* if is_valid_person_name(cleaned)
ValidateName ==
    /\ n_pc = "cleaned"
    /\ n_valid' = is_valid_person_name(n_cleaned)
    /\ n_pc' = "checked"
    /\ UNCHANGED <<n_raw, n_cleaned>>

----------------------------------------------------------------------------
(* clean_json.main on a list of names loaded from the input JSON.          *)

CleanerInputs ==
    { <<32, 32, 34, 74, 111, 104, 110, 32, 83, 109, 105, 116, 104, 34, 32, 32>>,
                                                 \* '  "John Smith"  '
      <<74, 111, 104, 110, 32, 83, 109, 105, 116, 104>>,    \* 'John Smith'
      <<68, 114, 46, 32, 77, 97, 114, 105, 97, 32, 76, 111, 112, 101, 122>>,
                                                 \* 'Dr. Maria Lopez'
      <<65, 110, 97, 9, 32, 82, 117, 105, 122, 32>>,        \* 'Ana\t Ruiz '
      <<39, 65, 110, 97, 32, 82, 117, 105, 122, 39>>,       \* "'Ana Ruiz'"
      <<34, 65, 110, 97, 34, 32, 82, 117, 105, 122>>,       \* '"Ana" Ruiz'
      <<65, 110, 97>>,                                      \* 'Ana'
      <<78, 65, 84, 79>>,                                   \* 'NATO'
      <<80, 80>>,                                           \* 'PP'
      <<65, 46, 32, 66, 46>>,                               \* 'A. B.'
      <<88>>,                                               \* 'X'
      <<34, 39, 32>> }                                      \* '"\' '

IdleCleaner ==
    /\ c_pc = "idle" /\ original_names = <<>> /\ c_i = 0
    /\ cleaned_names = <<>> /\ unique_names = <<>>

\* original_names = json.load(f); cleaned_names = []
InitCleaner ==
    /\ c_pc = "loop"
    /\ original_names \in SeqsUpTo(CleanerInputs, MaxNames)
    /\ c_i = 0
    /\ cleaned_names = <<>>
    /\ unique_names = <<>>

\* one iteration of `for name in original_names`
CleanNext ==
    /\ c_pc = "loop"
    /\ c_i < Len(original_names)
    /\ LET cleaned == clean_person_name(original_names[c_i + 1])
       IN  cleaned_names' = IF is_valid_person_name(cleaned)
                            THEN Append(cleaned_names, cleaned)
                            ELSE cleaned_names
    /\ c_i' = c_i + 1
    /\ UNCHANGED <<c_pc, original_names, unique_names>>

\* unique_names = sorted(list(set(cleaned_names))), dumped to the output file
SaveCleaned ==
    /\ c_pc = "loop"
    /\ c_i = Len(original_names)
    /\ unique_names' = Sorted(Range(cleaned_names))
    /\ c_pc' = "saved"
    /\ UNCHANGED <<original_names, c_i, cleaned_names>>

\* the whole of main's cleaning on a list of names
CleanerOutput(names) ==
    Sorted({clean_person_name(names[i]) : i \in
              {j \in 1..Len(names) :
                  is_valid_person_name(clean_person_name(names[j]))}})

----------------------------------------------------------------------------
(* The specifications: one per script or function, the others idle.        *)

Init == InitConv /\ IdleExtract /\ IdleTime /\ IdleName /\ IdleCleaner

Next ==
    \/ NextFile /\ UNCHANGED <<extractVars, timeVars, nameVars, cleanerVars>>
    \/ OpenFile /\ UNCHANGED <<extractVars, timeVars, nameVars, cleanerVars>>
    \/ ReadBoundary /\ UNCHANGED <<extractVars, timeVars, nameVars, cleanerVars>>
    \/ ReadToken /\ UNCHANGED <<extractVars, timeVars, nameVars, cleanerVars>>
    \/ DecodeError /\ UNCHANGED <<extractVars, timeVars, nameVars, cleanerVars>>
    \/ EndOfFile /\ UNCHANGED <<extractVars, timeVars, nameVars, cleanerVars>>
    \/ SaveJson /\ UNCHANGED <<extractVars, timeVars, nameVars, cleanerVars>>

Spec == Init /\ [][Next]_vars

InitX == IdleConv /\ InitExtract /\ IdleTime /\ IdleName /\ IdleCleaner

NextX == Extract /\ UNCHANGED <<convVars, timeVars, nameVars, cleanerVars>>

SpecExtract == InitX /\ [][NextX]_vars

InitT == IdleConv /\ IdleExtract /\ InitTime /\ IdleName /\ IdleCleaner

NextT == FormatTime /\ UNCHANGED <<convVars, extractVars, nameVars, cleanerVars>>

SpecTime == InitT /\ [][NextT]_vars

InitN == IdleConv /\ IdleExtract /\ IdleTime /\ InitName /\ IdleCleaner

NextN ==
    \/ CleanName /\ UNCHANGED <<convVars, extractVars, timeVars, cleanerVars>>
    \/ ValidateName /\ UNCHANGED <<convVars, extractVars, timeVars, cleanerVars>>

SpecName == InitN /\ [][NextN]_vars

InitC == IdleConv /\ IdleExtract /\ IdleTime /\ IdleName /\ InitCleaner

NextC ==
    \/ CleanNext /\ UNCHANGED <<convVars, extractVars, timeVars, nameVars>>
    \/ SaveCleaned /\ UNCHANGED <<convVars, extractVars, timeVars, nameVars>>

SpecCleaner == InitC /\ [][NextC]_vars

----------------------------------------------------------------------------
(* Properties.  The definitions below state what the specification says of *)
(* the code; they are written from the claims, not from the code.          *)

\* the elements of a finite set of naturals in increasing order
RECURSIVE Ascending(_)
Ascending(S) ==
    IF S = {} THEN <<>>
    ELSE <<SetMin(S)>> \o Ascending(S \ {SetMin(S)})

\* the tokens s[i..j] joined by single spaces
SpanText(s, i, j) == Join([k \in 1..(j - i + 1) |-> s[i + k - 1][1]])

\* the maximal runs of one B-PER followed by the I-PER right after it
PersonRuns(s) ==
    {r \in (1..Len(s)) \X (1..Len(s)) :
        /\ r[1] <= r[2]
        /\ s[r[1]][2] = B_PER
        /\ \A k \in (r[1] + 1)..r[2] : s[k][2] = I_PER
        /\ (r[2] = Len(s) \/ s[r[2] + 1][2] # I_PER)}

PersonRunNames(s) == {SpanText(s, r[1], r[2]) : r \in PersonRuns(s)}

\* an I-PER token with no run open before it
HasDanglingInside(s) ==
    \E i \in 1..Len(s) :
        s[i][2] = I_PER /\ (i = 1 \/ s[i - 1][2] \notin {B_PER, I_PER})

\* C1: extract_person_names returns exactly the space-joined maximal runs of
\* one B-PER token and the I-PER tokens that follow it; an I-PER token with
\* no open run adds nothing and opens no run.
C1_ExtractMaximalRuns ==
    x_pc = "returned" => x_names = PersonRunNames(x_sentence)

C1_Witness ==
    /\ x_pc = "returned"
    /\ HasDanglingInside(x_sentence)
    /\ \E r \in PersonRuns(x_sentence) : r[1] < r[2]
    /\ x_names # {}

\* a line that ends a sentence, as the specification words it
IsBreak(line) == line = <<>> \/ StartsWith(line, DOCSTART)

\* the lines of a file as the loop sees them under encoding e
SeenLines(f, e) == [i \in 1..Len(f) |-> Strip(Decode(e, f[i]))]

RunStarts(L) ==
    {i \in 1..Len(L) : ~IsBreak(L[i]) /\ (i = 1 \/ IsBreak(L[i - 1]))}

RunEnd(L, i) ==
    SetMax({j \in i..Len(L) : \A k \in i..j : ~IsBreak(L[k])})

FirstLastColumn(line) ==
    LET cols == Split(line) IN <<cols[1], cols[Len(cols)]>>

\* the sentences of a file: its maximal runs of non-boundary lines, in file
\* order, each line as (first column, last column)
ExpectedSentences(L) ==
    LET starts == Ascending(RunStarts(L))
    IN  [n \in 1..Len(starts) |->
            [k \in 1..(RunEnd(L, starts[n]) - starts[n] + 1) |->
                FirstLastColumn(L[starts[n] + k - 1])]]

\* the for loop over the sentences of the current file has ended
FileDone == pc \in {"loop", "done"} /\ file_idx > 0

\* C2: a file read without decode failure yields its non-boundary lines
\* grouped in file order, each as (first column, last column); blank and
\* -DOCSTART- lines close the sentence, no empty sentence is yielded, and a
\* sentence open at end of file is yielded.
C2_ParseGroupsLines ==
    /\ (enc = 1 => \A i \in 1..Len(yielded) : yielded[i] # <<>>)
    /\ (FileDone /\ enc = 1 =>
            yielded = ExpectedSentences(SeenLines(file, "utf-8")))

C2_Witness ==
    /\ FileDone
    /\ enc = 1
    /\ Len(file) = 3
    /\ StartsWith(file[2], DOCSTART)
    /\ Len(yielded) = 2

\* a step in which reading fails to decode: an undecodable line lies ahead
\* and the step does not consume a line
DecodeFailureStep == pc = "reading" /\ DecodeErrorAhead /\ pos' # pos + 1

\* C3: a decode failure reopens the file under the next encoding and reads
\* it again from the start; the error propagates only under the last
\* encoding; after an encoding read the file to its end none is tried.
C3_RetryNextEncoding ==
    [][/\ (DecodeFailureStep =>
              IF enc < Len(encodings_to_try)
              THEN /\ enc' = enc + 1
                   /\ pos' = 0
                   /\ sentence' = <<>>
                   /\ file' = file
                   /\ pc' = "reading"
              ELSE pc' = "UnicodeDecodeError")
       /\ (pc' = "UnicodeDecodeError" /\ pc # "UnicodeDecodeError" =>
              DecodeFailureStep /\ enc = Len(encodings_to_try))
       /\ (enc' # enc => DecodeFailureStep \/ pc' = "prepared")]_vars

C3_Witness ==
    /\ FileDone
    /\ enc = 2
    /\ yielded # <<>>
    /\ pos = Len(file)

\* the sentence a step delivers to the loop body, if it delivers one
NewlyYieldedNames ==
    IF Len(yielded') = Len(yielded) + 1
    THEN extract_person_names(yielded'[Len(yielded')])
    ELSE {}

\* a list in strictly increasing order (so without duplicates) of the set S
IsSortedListOf(list, S) ==
    /\ Range(list) = S
    /\ \A i, j \in 1..Len(list) : i < j => StrLess(list[i], list[j])

\* C7: the name set only grows, by the names of each yielded sentence and
\* by nothing else, over all files; the ground-truth JSON is written once,
\* after the last file, as the sorted duplicate-free list of the set.
C7_NamesAccumulateJsonOnce ==
    [][/\ all_person_names' = all_person_names \cup NewlyYieldedNames
       /\ (json_writes' # json_writes =>
              /\ json_writes = 0
              /\ json_writes' = 1
              /\ file_idx = nfiles
              /\ pc = "loop"
              /\ IsSortedListOf(json_out', all_person_names'))
       /\ (json_out' # json_out => json_writes' # json_writes)
       /\ (pc' = "done" => json_writes' = 1)]_vars

C7_Witness ==
    /\ pc = "done"
    /\ nfiles = 2
    /\ Len(json_out) >= 2
    /\ json_writes = 1

\* the claimed rendering: whole hours, minutes and seconds of the number
ClaimedTime(seconds) ==
    TwoDigits(seconds \div 3600) \o <<58>>
    \o TwoDigits((seconds % 3600) \div 60) \o <<58>>
    \o TwoDigits(seconds % 60) \o <<44, 48, 48, 48>>

\* C8: a time of k seconds is rendered HH:MM:SS,000 with HH the whole hours,
\* MM the minutes and SS the seconds of k, for every sentence count.
C8_TimeIsHoursMinutesSeconds ==
    t_pc = "returned" => t_out = ClaimedTime(t_seconds)

\* C9: whatever the position of a decode failure, the consumer receives the
\* sentences of the file under the encoding that reads it to the end, each
\* once, and log, subtitles and document hold one entry per sentence.
C9_EachSentenceDeliveredOnce ==
    FileDone =>
        LET expected == ExpectedSentences(SeenLines(file, Encoding))
        IN  /\ yielded = expected
            /\ Len(log_f) = Len(expected)
            /\ Len(srt_f) = Len(expected)
            /\ Len(doc) = Len(expected)

\* the attempt is about to read a decodable non-boundary line of one column
SingleColumnNext ==
    /\ pc = "reading"
    /\ pos < Len(file)
    /\ Decodable(Encoding, file[pos + 1])
    /\ ~IsBreak(NextLine)
    /\ Len(Split(NextLine)) = 1

\* the step handles the line: consumes it or dies on it
HandlesLineStep == pos' = pos + 1 \/ pc' = "IndexError"

\* C10 as stated: a line of a single column surfaces as an index error and
\* is neither skipped nor turned into a (token, tag) pair.
C10_SingleColumnIndexError ==
    [][SingleColumnNext /\ HandlesLineStep => pc' = "IndexError"]_vars

\* C10 as amended: no line raises an index error; a line of a single column
\* is turned into the pair whose token and tag are both that column.
C10_SingleColumnBecomesPair ==
    [][/\ pc' # "IndexError"
       /\ (SingleColumnNext /\ HandlesLineStep =>
              /\ pc' = "reading"
              /\ sentence' = Append(sentence, <<NextLine, NextLine>>))]_vars

C10_Witness ==
    /\ pc = "reading"
    /\ sentence # <<>>
    /\ sentence[Len(sentence)][1] = sentence[Len(sentence)][2]
    /\ Len(Split(SeenLines(file, Encoding)[pos])) = 1

\* the name with leading and trailing quotes and whitespace removed and each
\* inner run of whitespace replaced by one space, all else kept in order
NormalizedName(s) ==
    LET solid == {i \in 1..Len(s) : ~(s[i] \in {34, 39} \/ IsSpace(s[i]))}
    IN  IF solid = {} THEN <<>>
        ELSE LET kept == {i \in SetMin(solid)..SetMax(solid) :
                             ~IsSpace(s[i]) \/ ~IsSpace(s[i - 1])}
                 at == Ascending(kept)
             IN  [k \in 1..Len(at) |->
                     IF IsSpace(s[at[k]]) THEN 32 ELSE s[at[k]]]

\* the four shapes of C4, read off the name itself
IsWebsiteShape(n) ==
    StartsWith(n, <<119, 119, 119, 46>>) \/ EndsWith(n, <<46, 99, 111, 109>>)

IsNumeralShape(n) == n # <<>> /\ \A i \in 1..Len(n) : n[i] \in 48..57

IsAllCapsShape(n) == n # <<>> /\ \A i \in 1..Len(n) : n[i] \in 65..90

IsInitialsShape(n) == InitialGroups(n, 2) \/ InitialGroups(n, 3)

\* C4: is_valid_person_name returns False for every normalized name that is
\* a website address, a pure numeral, an all-caps abbreviation or initials
\* only.
C4_RejectsNonPersonShapes ==
    (/\ n_pc = "checked"
     /\ \/ IsWebsiteShape(n_cleaned)
        \/ IsNumeralShape(n_cleaned)
        \/ IsAllCapsShape(n_cleaned)
        \/ IsInitialsShape(n_cleaned))
    => n_valid = FALSE

\* C5: the cleaner run on its own output returns it unchanged: every cleaned
\* name is a fixed point of clean_person_name and still valid, and the list
\* stays sorted and duplicate-free.
C5_CleanerIdempotent ==
    c_pc = "saved" =>
        /\ \A i \in 1..Len(unique_names) :
              /\ clean_person_name(unique_names[i]) = unique_names[i]
              /\ is_valid_person_name(unique_names[i])
        /\ IsSortedListOf(unique_names, Range(unique_names))
        /\ CleanerOutput(unique_names) = unique_names

C5_Witness ==
    /\ c_pc = "saved"
    /\ Len(unique_names) = 2
    /\ \A i \in 1..Len(original_names) :
          clean_person_name(original_names[i]) # original_names[i]

\* C6: clean_person_name removes the leading and trailing quotes and
\* whitespace and turns each inner run of whitespace into one space, keeping
\* everything else; '  "John Smith"  ' becomes 'John Smith'; 'Dr. Maria
\* Lopez' is unchanged and then rejected by the title rule in any letter case.
C6_CleanNormalizes ==
    /\ (n_pc \in {"cleaned", "checked"} => n_cleaned = NormalizedName(n_raw))
    /\ (/\ n_pc \in {"cleaned", "checked"}
        /\ n_raw = <<32, 32, 34, 74, 111, 104, 110, 32, 83, 109, 105, 116,
                     104, 34, 32, 32>>
        => n_cleaned = <<74, 111, 104, 110, 32, 83, 109, 105, 116, 104>>)
    /\ (/\ n_pc = "checked"
        /\ Lower(n_raw) = <<100, 114, 46, 32, 109, 97, 114, 105, 97, 32,
                            108, 111, 112, 101, 122>>
        => n_cleaned = n_raw /\ n_valid = FALSE)
    /\ (/\ n_pc = "checked"
        /\ StartsWith(Lower(n_cleaned), <<100, 114, 46>>)
        => n_valid = FALSE)

C6_Witness ==
    /\ n_pc = "checked"
    /\ n_raw = <<68, 82, 46, 32, 77, 97, 114, 105, 97, 32, 76, 111, 112,
                 101, 122>>
    /\ n_cleaned = n_raw
    /\ n_valid = FALSE

====
